---------------------------- MODULE Spec2Model ----------------------------
(***************************************************************************)
(* A model of gmail-noiser: the Concurrent Visitor of src/link_clicker.py  *)
(* (class LinkInteractor) and the Domain Freshness Ledger of               *)
(* src/tracker_scanner.py (class EmailLinkExtractor).                      *)
(*                                                                         *)
(* URLs are TLA+ strings and the string functions of the source (lower,    *)
(* endswith, split, strip, urlparse, substring tests) are computed         *)
(* character by character.                                                 *)
(***************************************************************************)
EXTENDS Integers, Sequences, FiniteSets, TLC

(***************************************************************************)
(* Python string primitives.                                               *)
(***************************************************************************)
UpperAlpha == "ABCDEFGHIJKLMNOPQRSTUVWXYZ"
LowerAlpha == "abcdefghijklmnopqrstuvwxyz"
DigitChars == "0123456789"

\* s[i-1] of Python (1-based here), as a one-character string
Char(s, i) == SubSeq(s, i, i)

\* c in alphabet (alphabet a string, c a one-character string)
CharIn(c, alphabet) == \E i \in 1..Len(alphabet) : Char(alphabet, i) = c

\* str.lower() of one character: A..Z go to a..z, the rest stays
LowerChar(c) ==
    CASE c = "A" -> "a" [] c = "B" -> "b" [] c = "C" -> "c" [] c = "D" -> "d"
      [] c = "E" -> "e" [] c = "F" -> "f" [] c = "G" -> "g" [] c = "H" -> "h"
      [] c = "I" -> "i" [] c = "J" -> "j" [] c = "K" -> "k" [] c = "L" -> "l"
      [] c = "M" -> "m" [] c = "N" -> "n" [] c = "O" -> "o" [] c = "P" -> "p"
      [] c = "Q" -> "q" [] c = "R" -> "r" [] c = "S" -> "s" [] c = "T" -> "t"
      [] c = "U" -> "u" [] c = "V" -> "v" [] c = "W" -> "w" [] c = "X" -> "x"
      [] c = "Y" -> "y" [] c = "Z" -> "z"
      [] OTHER -> c

\* the character at position i in lower case, nothing past the end
LowerAt(s, i) == IF i > Len(s) THEN "" ELSE LowerChar(Char(s, i))

\* the characters from position a on in lower case, eight at a time
RECURSIVE LowerFrom(_, _)
LowerFrom(s, a) ==
    IF a > Len(s) THEN ""
    ELSE LowerAt(s, a) \o LowerAt(s, a + 1) \o LowerAt(s, a + 2) \o LowerAt(s, a + 3)
         \o LowerAt(s, a + 4) \o LowerAt(s, a + 5) \o LowerAt(s, a + 6)
         \o LowerAt(s, a + 7) \o LowerFrom(s, a + 8)

\* str.lower()
Lower(s) == LowerFrom(s, 1)

\* s[i:] of Python with i 0-based, i.e. the suffix from (1-based) position i+1
From(s, i) == IF i >= Len(s) THEN "" ELSE SubSeq(s, i + 1, Len(s))

\* s[:i] of Python
UpTo(s, i) == IF i <= 0 THEN "" ELSE SubSeq(s, 1, IF i > Len(s) THEN Len(s) ELSE i)

\* sub occurs in s at (1-based) position i
MatchAt(s, sub, i) ==
    /\ i >= 1
    /\ i + Len(sub) - 1 <= Len(s)
    /\ SubSeq(s, i, i + Len(sub) - 1) = sub

\* str.find(sub, start): the least 1-based position >= start of sub in s, 0 if none
Find(s, sub, start) ==
    LET hits == {i \in start..Len(s) : MatchAt(s, sub, i)}
    IN  IF hits = {} THEN 0 ELSE CHOOSE i \in hits : \A k \in hits : i <= k

\* sub in s
Contains(sub, s) == \E i \in 1..(Len(s) + 1) : MatchAt(s, sub, i)

\* str.startswith(p), str.endswith(p)
StartsWith(s, p) == MatchAt(s, p, 1)
EndsWith(s, p) == Len(p) <= Len(s) /\ MatchAt(s, p, Len(s) - Len(p) + 1)

\* str.split(sep) for a one-character separator: the list of fields
RECURSIVE Split(_, _)
Split(s, sep) ==
    LET i == Find(s, sep, 1)
    IN  IF i = 0 THEN <<s>>
        ELSE <<UpTo(s, i - 1)>> \o Split(From(s, i), sep)

\* str.split(sep) for a separator of any length
RECURSIVE SplitStr(_, _)
SplitStr(s, sep) ==
    LET i == Find(s, sep, 1)
    IN  IF i = 0 THEN <<s>>
        ELSE <<UpTo(s, i - 1)>> \o SplitStr(From(s, i + Len(sep) - 1), sep)

\* str.strip(): whitespace removed at both ends
RECURSIVE LStrip(_)
LStrip(s) == IF Len(s) > 0 /\ Char(s, 1) = " " THEN LStrip(From(s, 1)) ELSE s
RECURSIVE RStrip(_)
RStrip(s) ==
    IF Len(s) > 0 /\ Char(s, Len(s)) = " " THEN RStrip(UpTo(s, Len(s) - 1)) ELSE s
Strip(s) == RStrip(LStrip(s))

\* 'sep'.join(list)
RECURSIVE Join(_, _)
Join(sep, list) ==
    IF Len(list) = 0 THEN ""
    ELSE IF Len(list) = 1 THEN list[1]
    ELSE list[1] \o sep \o Join(sep, Tail(list))

(***************************************************************************)
(* urllib.parse.urlparse, as far as the source reads its result: scheme,   *)
(* netloc, path, params, query, fragment.                                  *)
(***************************************************************************)
SchemeChars == LowerAlpha \o UpperAlpha \o DigitChars \o "+-."

\* the schemes whose last path segment may carry ;parameters
uses_params ==
    {"", "ftp", "hdl", "prospero", "http", "imap", "https", "shttp", "rtsp",
     "rtspu", "sip", "sips", "mms", "sftp", "tel"}

\* str.rfind(sub): the greatest 1-based position of sub in s, 0 if none
RFind(s, sub) ==
    LET hits == {i \in 1..Len(s) : MatchAt(s, sub, i)}
    IN  IF hits = {} THEN 0 ELSE CHOOSE i \in hits : \A k \in hits : i >= k

\* _splitparams: the position of the ";" that starts the parameters of the
\* last path segment, 0 if there is none
ParamsAt(path) ==
    LET slash == RFind(path, "/")
    IN  Find(path, ";", IF slash > 0 THEN slash ELSE 1)

\* the position of the first of "/", "?", "#" at or after start; Len(s)+1 if none
NetlocEnd(s, start) ==
    LET hits == {i \in start..Len(s) : CharIn(Char(s, i), "/?#")}
    IN  IF hits = {} THEN Len(s) + 1 ELSE CHOOSE i \in hits : \A k \in hits : i <= k

\* url[:colon] is a scheme: a letter, then letters, digits, "+", "-", "."
HasScheme(url, colon) ==
    /\ colon > 1
    /\ CharIn(Char(url, 1), LowerAlpha \o UpperAlpha)
    /\ \A i \in 1..(colon - 1) : CharIn(Char(url, i), SchemeChars)

\* _splitparams: path and params parted at the ";" at position semi
SplitParamsAt(scheme, netloc, rest, query, fragment, semi) ==
    [scheme |-> scheme, netloc |-> netloc,
     path |-> IF semi > 0 THEN UpTo(rest, semi - 1) ELSE rest,
     params |-> IF semi > 0 THEN From(rest, semi) ELSE "",
     query |-> query, fragment |-> fragment]

\* urlparse: the parameters are split off for the schemes of uses_params
SplitParams(scheme, netloc, rest, query, fragment) ==
    SplitParamsAt(scheme, netloc, rest, query, fragment,
                  IF scheme \in uses_params THEN ParamsAt(rest) ELSE 0)

\* urlsplit: the query starts after the "?" at position qm
SplitQueryAt(scheme, netloc, rest, fragment, qm) ==
    SplitParams(scheme, netloc,
                IF qm > 0 THEN UpTo(rest, qm - 1) ELSE rest,
                IF qm > 0 THEN From(rest, qm) ELSE "",
                fragment)

\* urlsplit: the fragment starts after the "#" at position hash
SplitFragmentAt(scheme, netloc, rest, hash) ==
    SplitQueryAt(scheme, netloc,
                 IF hash > 0 THEN UpTo(rest, hash - 1) ELSE rest,
                 IF hash > 0 THEN From(rest, hash) ELSE "",
                 Find(IF hash > 0 THEN UpTo(rest, hash - 1) ELSE rest, "?", 1))

\* urlsplit: the netloc of a rest that starts with "//" ends at position nend
SplitNetlocAt(scheme, rest, hasNetloc, nend) ==
    SplitFragmentAt(scheme,
                    IF hasNetloc THEN SubSeq(rest, 3, nend - 1) ELSE "",
                    IF hasNetloc THEN From(rest, nend - 1) ELSE rest,
                    Find(IF hasNetloc THEN From(rest, nend - 1) ELSE rest, "#", 1))

SplitNetloc(scheme, rest) ==
    SplitNetlocAt(scheme, rest, StartsWith(rest, "//"), NetlocEnd(rest, 3))

\* urlsplit: the scheme, in lower case, ends before the ":" at position colon
SplitSchemeAt(url, colon) ==
    SplitNetloc(IF HasScheme(url, colon) THEN Lower(UpTo(url, colon - 1)) ELSE "",
                IF HasScheme(url, colon) THEN From(url, colon) ELSE url)

urlparse(url) == SplitSchemeAt(url, Find(url, ":", 1))

\* urlsplit raises ValueError("Invalid IPv6 URL") for a netloc with one of
\* "[" and "]" and not the other (hosts with both are not modelled)
urlparse_raises(url) ==
    LET netloc == urlparse(url).netloc
    IN  Contains("[", netloc) # Contains("]", netloc)

(***************************************************************************)
(* The Visitor: class LinkInteractor of src/link_clicker.py.               *)
(***************************************************************************)
VARIABLES
    csv_file,         \* visited_domains.csv: its lines, <<>> when there is no file
    visited_domains,  \* self.visited_domains: the rows of the DataFrame
    max_concurrent,   \* self.max_concurrent
    pc,               \* where run() is: off, constructed, gather, pacing, closed
    input,            \* the interchange file handed to run(): its rows
    urls_data,        \* urls_data of run(): the (url, timestamp) pairs submitted
    i,                \* the loop variable i of run(): 0-based offset of the batch
    tasks,            \* the visit_url coroutines of the batch handed to gather
    now,              \* datetime.now(), in days
    runs,             \* processes started so far
    start_rows,       \* history: self.visited_domains as loaded by the constructor
    persisted,        \* history: the rows the file held, as text, at that moment
    candidates,       \* history: the http URLs of the input, each with its domain
    derived,          \* history: per submitted URL, get_domain and should_skip_url of it
    navigated,        \* history: the URLs page.goto was called with in this run
    batches,          \* history: the sizes of the batches issued in this run
    delays,           \* history: the pacing delays taken in this run
    last_visit        \* history: the visit of the batch that returned last

vvars == <<csv_file, visited_domains, max_concurrent, pc, input, urls_data, i,
           tasks, now, runs, start_rows, persisted, candidates, derived, navigated,
           batches, delays, last_visit>>

MaxRuns == 2          \* processes started in one behaviour
MaxConcurrent == 2    \* widths 1..MaxConcurrent are tried

(***************************************************************************)
(* pandas: DataFrame.to_csv(index=False) and read_csv with their default   *)
(* arguments, for rows whose fields hold no comma, quote or line break     *)
(* and for columns that hold a field that is no number and no boolean.     *)
(***************************************************************************)
CsvHeader == "domain,timestamp,status,visited_at"

\* the missing value (float nan) of a cell; it holds a comma, so that no
\* field of a line and no domain of a URL is equal to it, as nan is equal
\* to no string
NaN == ",nan"

\* the fields read_csv reads as missing (its default na_values)
na_values ==
    {"", "#N/A", "#N/A N/A", "#NA", "-1.#IND", "-1.#QNAN", "-NaN", "-nan",
     "1.#IND", "1.#QNAN", "<NA>", "N/A", "NA", "NULL", "NaN", "None", "n/a",
     "nan", "null"}

\* to_csv writes a missing cell as the empty field (na_rep = '')
na_rep(cell) == IF cell = NaN THEN "" ELSE cell

RowLine(row) ==
    Join(",", <<na_rep(row.domain), na_rep(row.timestamp), na_rep(row.status),
                na_rep(row.visited_at)>>)

\* the fields of a line of the file, as text
TextRow(line) ==
    LET f == Split(line, ",")
    IN  [domain |-> f[1], timestamp |-> f[2], status |-> f[3], visited_at |-> f[4]]

\* the cell read_csv makes of a field
Cell(field) == IF field \in na_values THEN NaN ELSE field

LineRow(line) ==
    LET f == TextRow(line)
    IN  [domain |-> Cell(f.domain), timestamp |-> Cell(f.timestamp),
         status |-> Cell(f.status), visited_at |-> Cell(f.visited_at)]

\* the rows of the file as text, without its header
TextRows(file) == [k \in 1..(Len(file) - 1) |-> TextRow(file[k + 1])]

to_csv(df) == <<CsvHeader>> \o [k \in 1..Len(df) |-> RowLine(df[k])]

read_csv(file) == [k \in 1..(Len(file) - 1) |-> LineRow(file[k + 1])]

\* _load_visited_domains: the file's rows, or the empty frame of __init__
\* when the file does not exist (FileNotFoundError)
load_visited_domains(file) == IF file = <<>> THEN <<>> ELSE read_csv(file)

\* _save_visited_domains, line 23: the whole frame is written over the file
save_visited_domains(df) == to_csv(df)

\* self.visited_domains['domain'].values
DomainValues(df) == {df[k].domain : k \in 1..Len(df)}

\* datetime.now().strftime('%Y-%m-%d %H:%M:%S')
strftime(day) == "2024-06-0" \o Char(DigitChars, day + 1) \o " 12:00:00"

(***************************************************************************)
(* get_domain and should_skip_url.                                         *)
(***************************************************************************)
get_domain(url) == Lower(urlparse(url).netloc)

skip_extensions == <<".png", ".jpg", ".gif", ".ico", ".svg", ".css", ".js">>

skip_keywords ==
    <<"unsubscribe", "track.", "email.", "click.", "links.",
      "notification.", "redirect.", "mail.", "news.", "link.",
      "analytics.", "pixel.", "beacon.", "open.", "image.">>

skip_path_fragments ==
    <<"unsub", "track", "proc.php", "click", "open", "pixel", "beacon",
      "/e/", "/o/", "ls/click">>

\* url.endswith(skip_extensions): of the URL as given, not of its path
EndsWithAny(s, suffixes) == \E k \in 1..Len(suffixes) : EndsWith(s, suffixes[k])

should_skip_url(url) ==
    LET parsed == urlparse(Lower(url))
        path_lower == Lower(parsed.path)
    IN  \/ EndsWithAny(url, skip_extensions)
        \/ \E k \in 1..Len(skip_keywords) : Contains(skip_keywords[k], parsed.netloc)
        \/ \E k \in 1..Len(skip_path_fragments) :
               Contains(skip_path_fragments[k], path_lower)

(***************************************************************************)
(* run(), lines 104-120: the URLs submitted to the Visitor.                *)
(***************************************************************************)
\* pd.isna(row['Latest URLs']): read_csv reads an empty field as NaN
isna(field) == Cell(field) = NaN

\* the stripped fields of one row that start with 'http', with its timestamp
RECURSIVE HttpUrls(_, _)
HttpUrls(fields, ts) ==
    IF Len(fields) = 0 THEN <<>>
    ELSE LET url == Strip(fields[1])
         IN  (IF StartsWith(url, "http") THEN <<<<url, ts>>>> ELSE <<>>)
             \o HttpUrls(Tail(fields), ts)

\* the candidates of all rows, in the order the two loops meet them
RECURSIVE Candidates(_)
Candidates(rows) ==
    IF Len(rows) = 0 THEN <<>>
    ELSE (IF isna(rows[1].Latest_URLs) THEN <<>>
          ELSE HttpUrls(Split(rows[1].Latest_URLs, ";"), rows[1].Latest_Timestamp))
         \o Candidates(Tail(rows))

\* line 116 without its domains_seen test
AdmissibleNoSeen(domain, domains_seen, visited) == domain \notin visited

\* line 116: domain not in domains_seen and not in the store
Admissible(domain, domains_seen, visited) ==
    domain \notin domains_seen /\ domain \notin visited

RECURSIVE Admit(_, _, _)
Admit(cands, domains_seen, visited) ==
    IF Len(cands) = 0 THEN <<>>
    ELSE LET domain == get_domain(cands[1][1])
         IN  IF Admissible(domain, domains_seen, visited)
             THEN <<cands[1]>> \o Admit(Tail(cands), domains_seen \cup {domain}, visited)
             ELSE Admit(Tail(cands), domains_seen, visited)

(***************************************************************************)
(* The interchange files handed to run(): rows of the two columns the      *)
(* loader reads.                                                           *)
(***************************************************************************)
Row(urls, ts) == [Latest_URLs |-> urls, Latest_Timestamp |-> ts]

\* two URLs of one domain, a rejected URL of a fresh domain, a row without
\* URLs, an asset URL with a query string beside an entry that is no http
\* URL, an asset URL and one with an upper-case extension
InputMixed ==
    << Row("http://Shop.example.com/deals; http://shop.example.com/unsubscribe",
           "2024-05-03T09:00:00+00:00"),
       Row("http://mail.example.net/unsubscribe?id=7", "2024-05-02T09:00:00+00:00"),
       Row("", "2024-05-01T09:00:00+00:00"),
       Row("http://static.example.com/c.png?v=1; mailto:x@example.com",
           "2024-04-30T09:00:00+00:00"),
       Row("http://cdn.example.com/a.png; http://A.com/b.PNG",
           "2024-04-29T09:00:00+00:00") >>

\* five URLs of five domains, one of them a domain that InputMixed names
\* too; two are rejected by should_skip_url: one of the host null (what a
\* mail template puts for a value it does not have) and one without a host
InputFive ==
    << Row("http://a.com/; http://b.com/x", "2024-05-03T09:00:00+00:00"),
       Row("http://null/unsubscribe", "2024-05-02T09:00:00+00:00"),
       Row("http://d.com/; http:///o/1", "2024-05-01T09:00:00+00:00") >>

Inputs == {InputMixed, InputFive}

(***************************************************************************)
(* What page.goto(url, timeout=15000) can do: time out, raise, return no   *)
(* response, or return a response with a status.                           *)
(***************************************************************************)
Statuses == {200, 304, 404}

NoNav == [kind |-> "-", status |-> 0]

NavOutcomes ==
    {[kind |-> k, status |-> 0] : k \in {"timeout", "exception", "none"}}
    \cup {[kind |-> "response", status |-> st] : st \in Statuses}

\* a Response.ok that would take the redirect statuses too
ResponseOkRedirects(status) == status >= 200 /\ status <= 399

\* Response.ok of the browser library, read at line 84: status 0 (file:
\* URLs) or 200..299
ResponseOk(status) == status = 0 \/ (status >= 200 /\ status <= 299)

(***************************************************************************)
(* Rows of the Visit State Store.                                          *)
(***************************************************************************)
\* a row that records failed whatever status it is given
VisitRowFailed(task, status) ==
    [domain |-> task.domain, timestamp |-> task.timestamp,
     status |-> "failed", visited_at |-> task.visited_at]

\* the row visit_url builds at lines 71, 94 and 99
VisitRow(task, status) ==
    [domain |-> task.domain, timestamp |-> task.timestamp,
     status |-> status, visited_at |-> task.visited_at]

\* lines 72-73, 94-95, 100-101: the row goes to label len(frame), then the
\* frame is saved
Record(task, status) ==
    /\ visited_domains' = Append(visited_domains, VisitRow(task, status))
    /\ csv_file' = save_visited_domains(visited_domains')
    /\ last_visit' = [url |-> task.url, nav |-> task.nav, scroll |-> task.scroll,
                      status |-> status]

NoVisit == [url |-> "", nav |-> NoNav, scroll |-> "-", status |-> "-"]

\* the coroutine has returned
Returned(task) == [task EXCEPT !.pc = "done", !.nav = NoNav, !.scroll = "-"]

\* a batch whose items are all given the first page
BatchOnePage(data, info, k, width) ==
    LET size == IF k + width <= Len(data) THEN width ELSE Len(data) - k
    IN  [j \in 1..size |->
            [url |-> data[k + j][1], timestamp |-> data[k + j][2],
             domain |-> info[k + j].domain, skip |-> info[k + j].skip,
             page |-> 0, pc |-> "pending", nav |-> NoNav,
             scroll |-> "-", visited_at |-> ""]]

\* lines 135-137: the coroutines of the batch at offset k, item j on page
\* j mod W; domain and skip are get_domain(url) and should_skip_url(url) of
\* lines 67 and 70, as info holds them for the item
Batch(data, info, k, width) ==
    LET size == IF k + width <= Len(data) THEN width ELSE Len(data) - k
    IN  [j \in 1..size |->
            [url |-> data[k + j][1], timestamp |-> data[k + j][2],
             domain |-> info[k + j].domain, skip |-> info[k + j].skip,
             page |-> (j - 1) % width, pc |-> "pending", nav |-> NoNav,
             scroll |-> "-", visited_at |-> ""]]

\* visit_url, lines 70-81: what the first step of the coroutine comes to
first_step(task, visited) ==
    IF task.skip THEN "skipped"
    ELSE IF task.domain \in visited THEN "known"
    ELSE "goto"

\* a gather that would return with the first coroutine to return
GatherDoneAny == \E j \in DOMAIN tasks : tasks[j].pc = "done"

\* asyncio.gather, line 138, returns when every coroutine has returned
GatherDone == \A j \in DOMAIN tasks : tasks[j].pc = "done"

\* the event loop runs the first step of every coroutine of the batch, in
\* order, before it delivers any completion
AllStarted == \A j \in DOMAIN tasks : tasks[j].pc # "pending"

(***************************************************************************)
(* The Ledger: class EmailLinkExtractor of src/tracker_scanner.py.         *)
(***************************************************************************)
VARIABLES
    domain_tracking,  \* self.domain_tracking: the records of the domains touched
    local_tz,         \* the UTC offset of datetime.now().astimezone(), in hours
    observations,     \* what the scan finds in the mailbox: the observations
                      \* its calls of update_domain_tracking can be given
    reconciled,       \* history: the observations update_domain_tracking was given
    key_order,        \* the keys of self.domain_tracking in the order of insertion
    first_sender,     \* history: per domain, the sender of the observation that
                      \* arrived first among those of the greatest timestamp
    mailbox,          \* the messages of the search result of scan_inbox, in order
    index,            \* the messages the loop of scan_inbox has gone through
    scan_pc,          \* where main() is: idle, scanning, scanned, saved
    fetched,          \* history: the positions self.mail.fetch was called for
    processed,        \* history: the positions extract_links_from_email was
                      \* called for
    exported          \* the rows save_to_csv has written under the header

\* the variables of the scan and the export
svars == <<mailbox, index, scan_pc, fetched, processed, exported>>

lvars == <<domain_tracking, local_tz, observations, reconciled, key_order,
           first_sender, svars>>

vars == <<vvars, lvars>>

MaxObs == 3           \* observations reconciled in one behaviour

(***************************************************************************)
(* datetime values: a wall-clock hour and, when aware, a UTC offset.       *)
(* Aware values compare by the instant they name.                          *)
(***************************************************************************)
None == [none |-> TRUE, wall |-> 0, aware |-> FALSE, offset |-> 0]
Naive(wall) == [none |-> FALSE, wall |-> wall, aware |-> FALSE, offset |-> 0]
Aware(wall, offset) == [none |-> FALSE, wall |-> wall, aware |-> TRUE, offset |-> offset]

\* lines 121-127: timestamp.replace(tzinfo=<local>) when tzinfo is None
attach_local(ts, local) ==
    IF ~ts.none /\ ~ts.aware THEN Aware(ts.wall, local) ELSE ts

Instant(ts) == ts.wall - ts.offset
Later(a, b) == Instant(a) > Instant(b)          \* a > b
SameTime(a, b) == Instant(a) = Instant(b)       \* a == b

(***************************************************************************)
(* extract_tracking_params and the click-id patterns of                    *)
(* extract_links_from_email, for URLs without percent escapes.             *)
(***************************************************************************)
tracking_patterns ==
    <<"utm_", "fbclid", "gclid", "mc_eid", "ml_subscriber", "sb_", "ct0",
      "yclid", "msclkid", "_hsenc", "wickedid", "ref", "source", "medium",
      "campaign", "term", "content", "affiliate", "sid", "uid", "cid", "lid",
      "pid", "rid", "tid", "vid", "mid", "tag", "hsCtaTracking", "redirect">>

\* parse_qs: the name=value fields of the query, blank values dropped
RECURSIVE QueryPairs(_)
QueryPairs(fields) ==
    IF Len(fields) = 0 THEN <<>>
    ELSE LET eq == Find(fields[1], "=", 1)
             name == UpTo(fields[1], eq - 1)
             value == From(fields[1], eq)
         IN  (IF eq > 0 /\ Len(value) > 0 THEN <<<<name, value>>>> ELSE <<>>)
             \o QueryPairs(Tail(fields))

parse_qs(query) == IF query = "" THEN <<>> ELSE QueryPairs(Split(query, "&"))

\* query_params[param][0]
FirstValue(pairs, name) ==
    pairs[CHOOSE k \in 1..Len(pairs) :
              pairs[k][1] = name /\ \A m \in 1..(k - 1) : pairs[m][1] # name][2]

\* lines 76-79: pattern in param.lower()
Qualifies(param) ==
    \E k \in 1..Len(tracking_patterns) : Contains(tracking_patterns[k], Lower(param))

\* the dict returned, as the set of its (name, value) items
extract_tracking_params(url) ==
    LET query_params == parse_qs(urlparse(url).query)
    IN  {<<query_params[k][1], FirstValue(query_params, query_params[k][1])>> :
            k \in {n \in 1..Len(query_params) : Qualifies(query_params[n][1])}}

\* the position of the first "&" at or after start; Len(s)+1 if none
RunEnd(s, start) ==
    LET hits == {k \in start..Len(s) : Char(s, k) = "&"}
    IN  IF hits = {} THEN Len(s) + 1 ELSE CHOOSE k \in hits : \A m \in hits : k <= m

\* re.findall(prefix ([^&]+), s) from position pos on, the prefix one of
\* prefixes: the captured groups of the matches, left to right
RECURSIVE FindAllFrom(_, _, _)
FindAllFrom(s, prefixes, pos) ==
    LET starts == {k \in pos..Len(s) :
                      \E q \in prefixes :
                          /\ MatchAt(s, q, k)
                          /\ k + Len(q) <= Len(s)
                          /\ Char(s, k + Len(q)) # "&"}
    IN  IF starts = {} THEN {}
        ELSE LET k == CHOOSE a \in starts : \A b \in starts : a <= b
                 q == CHOOSE q \in prefixes : MatchAt(s, q, k)
                 stop == RunEnd(s, k + Len(q))
             IN  {SubSeq(s, k + Len(q), stop - 1)} \cup FindAllFrom(s, prefixes, stop)

\* lines 172-176: click[_-]?id=([^&]+) and cid=([^&]+)
click_ids_of(url) ==
    FindAllFrom(url, {"clickid=", "click_id=", "click-id="}, 1)
    \cup FindAllFrom(url, {"cid="}, 1)

(***************************************************************************)
(* update_domain_tracking.  latest_tracking_params, a dict of sets, is the *)
(* set of its (name, value) pairs.                                         *)
(***************************************************************************)
\* the default record of line 18
DefaultRecord ==
    [latest_urls |-> {}, latest_tracking_params |-> {}, latest_click_ids |-> {},
     latest_source_email |-> "", latest_timestamp |-> None,
     latest_campaign_ids |-> {}]

\* self.domain_tracking[domain] of a defaultdict
Lookup(tracking, domain) ==
    IF domain \in DOMAIN tracking THEN tracking[domain] ELSE DefaultRecord

Store(tracking, domain, record) ==
    [d \in DOMAIN tracking \cup {domain} |->
        IF d = domain THEN record ELSE tracking[d]]

\* update_domain_tracking with >= where line 131 has >
update_domain_tracking_ge(tracking, domain, url, tracking_params, timestamp, sender, click_ids, local) ==
    LET ts == attach_local(timestamp, local)
        current_data == Lookup(tracking, domain)
    IN  IF current_data.latest_timestamp.none
           \/ ~Later(current_data.latest_timestamp, ts)
        THEN Store(tracking, domain,
                   [current_data EXCEPT !.latest_urls = {url},
                                        !.latest_tracking_params = tracking_params,
                                        !.latest_click_ids = click_ids,
                                        !.latest_source_email = sender,
                                        !.latest_timestamp = ts])
        ELSE Store(tracking, domain, current_data)

\* update_domain_tracking with the parameters of lines 135-136 left out
update_domain_tracking_no_params(tracking, domain, url, tracking_params, timestamp, sender, click_ids, local) ==
    LET ts == attach_local(timestamp, local)
        current_data == Lookup(tracking, domain)
    IN  IF current_data.latest_timestamp.none
           \/ Later(ts, current_data.latest_timestamp)
        THEN Store(tracking, domain,
                   [current_data EXCEPT !.latest_urls = {url},
                                        !.latest_tracking_params = {},
                                        !.latest_click_ids = click_ids,
                                        !.latest_source_email = sender,
                                        !.latest_timestamp = ts])
        ELSE IF SameTime(ts, current_data.latest_timestamp)
        THEN Store(tracking, domain,
                   [current_data EXCEPT
                       !.latest_urls = @ \cup {url},
                       !.latest_tracking_params = @ \cup tracking_params,
                       !.latest_click_ids = @ \cup click_ids])
        ELSE Store(tracking, domain, current_data)

\* update_domain_tracking with the sender taken at an equal timestamp too
update_domain_tracking_sender_on_tie(tracking, domain, url, tracking_params, timestamp, sender, click_ids, local) ==
    LET ts == attach_local(timestamp, local)
        current_data == Lookup(tracking, domain)
    IN  IF current_data.latest_timestamp.none
           \/ Later(ts, current_data.latest_timestamp)
        THEN Store(tracking, domain,
                   [current_data EXCEPT !.latest_urls = {url},
                                        !.latest_tracking_params = tracking_params,
                                        !.latest_click_ids = click_ids,
                                        !.latest_source_email = sender,
                                        !.latest_timestamp = ts])
        ELSE IF SameTime(ts, current_data.latest_timestamp)
        THEN Store(tracking, domain,
                   [current_data EXCEPT
                       !.latest_urls = @ \cup {url},
                       !.latest_tracking_params = @ \cup tracking_params,
                       !.latest_click_ids = @ \cup click_ids,
                       !.latest_source_email = sender])
        ELSE Store(tracking, domain, current_data)

update_domain_tracking(tracking, domain, url, tracking_params, timestamp, sender, click_ids, local) ==
    LET ts == attach_local(timestamp, local)
        stored == Lookup(tracking, domain)
        current_data ==
            [stored EXCEPT !.latest_timestamp = attach_local(@, local)]
    IN  IF current_data.latest_timestamp.none
           \/ Later(ts, current_data.latest_timestamp)
        THEN Store(tracking, domain,
                   [current_data EXCEPT !.latest_urls = {url},
                                        !.latest_tracking_params = tracking_params,
                                        !.latest_click_ids = click_ids,
                                        !.latest_source_email = sender,
                                        !.latest_timestamp = ts])
        ELSE IF SameTime(ts, current_data.latest_timestamp)
        THEN Store(tracking, domain,
                   [current_data EXCEPT
                       !.latest_urls = @ \cup {url},
                       !.latest_tracking_params = @ \cup tracking_params,
                       !.latest_click_ids = @ \cup click_ids])
        ELSE Store(tracking, domain, current_data)

(***************************************************************************)
(* The observations a scan feeds to update_domain_tracking: lines 168-181  *)
(* for one URL of a message with a Date and a From header.                 *)
(***************************************************************************)
LedgerUrls ==
    {"http://a.com/x?utm_source=news&click_id=7",
     "http://a.com/y",
     "http://a.com/z?ref=old",
     "http://b.com/sale?cid=9&ref=mail"}

Timestamps == {Naive(2), Aware(2, 1), Aware(2, 0)}

Senders == {"deals@a.com", "news@b.com"}

LocalOffsets == {0, 1}

Observation(url, timestamp, sender) ==
    [domain |-> urlparse(url).netloc, url |-> url,
     tracking_params |-> extract_tracking_params(url),
     timestamp |-> timestamp, sender |-> sender,
     click_ids |-> click_ids_of(url)]

Observations ==
    {Observation(url, timestamp, sender) :
        url \in LedgerUrls, timestamp \in Timestamps, sender \in Senders}

Reconciled(tracking, o, local) ==
    update_domain_tracking(tracking, o.domain, o.url, o.tracking_params,
                           o.timestamp, o.sender, o.click_ids, local)

\* the keys of the dict after self.domain_tracking[domain] of line 118: a
\* new key goes last
KeyOrder(order, domain) ==
    IF \E k \in 1..Len(order) : order[k] = domain THEN order
    ELSE Append(order, domain)

\* the sender of the observation that arrived first among those of the
\* greatest timestamp of its domain, o arriving after the observations seen
FirstSender(first, seen, o, local) ==
    IF \A p \in seen :
           p.domain = o.domain =>
               Instant(attach_local(o.timestamp, local))
                   > Instant(attach_local(p.timestamp, local))
    THEN [d \in DOMAIN first \cup {o.domain} |->
             IF d = o.domain THEN o.sender ELSE first[d]]
    ELSE first

\* main() before scan_inbox is called
ScanIdle ==
    /\ mailbox = <<>>
    /\ index = 0
    /\ scan_pc = "idle"
    /\ fetched = {}
    /\ processed = {}
    /\ exported = <<>>

LedgerIdle ==
    /\ domain_tracking = <<>>
    /\ local_tz = 0
    /\ observations = {}
    /\ reconciled = {}
    /\ key_order = <<>>
    /\ first_sender = <<>>
    /\ ScanIdle

LedgerInit ==
    /\ domain_tracking = <<>>
    /\ local_tz \in LocalOffsets
    /\ observations = Observations
    /\ reconciled = {}
    /\ key_order = <<>>
    /\ first_sender = <<>>
    /\ ScanIdle

\* lines 178-181: one observation reconciled
UpdateDomainTracking(o) ==
    /\ Cardinality(reconciled) < MaxObs
    /\ domain_tracking' = Reconciled(domain_tracking, o, local_tz)
    /\ reconciled' = reconciled \cup {o}
    /\ key_order' = KeyOrder(key_order, o.domain)
    /\ first_sender' = FirstSender(first_sender, reconciled, o, local_tz)
    /\ UNCHANGED <<local_tz, observations, svars, vvars>>

LedgerNext == \E o \in observations : UpdateDomainTracking(o)

(***************************************************************************)
(* The Visitor process.                                                    *)
(***************************************************************************)
VisitorInit ==
    /\ csv_file = <<>>
    /\ visited_domains = <<>>
    /\ max_concurrent = 1
    /\ pc = "off"
    /\ input = <<>>
    /\ urls_data = <<>>
    /\ i = 0
    /\ tasks = <<>>
    /\ now = 0
    /\ runs = 0
    /\ start_rows = <<>>
    /\ persisted = <<>>
    /\ candidates = <<>>
    /\ derived = <<>>
    /\ navigated = {}
    /\ batches = <<>>
    /\ delays = 0
    /\ last_visit = NoVisit

Init == VisitorInit /\ LedgerIdle

\* main() and __init__: a new process (the one before, if any, has ended),
\* the store loaded
Construct(width) ==
    /\ pc \in {"off", "closed"}
    /\ UNCHANGED lvars
    /\ runs < MaxRuns
    /\ runs' = runs + 1
    /\ now' = now + 1
    /\ max_concurrent' = width
    /\ visited_domains' = load_visited_domains(csv_file)
    /\ start_rows' = visited_domains'
    /\ persisted' = TextRows(csv_file)
    /\ pc' = "constructed"
    /\ input' = <<>>
    /\ urls_data' = <<>>
    /\ candidates' = <<>>
    /\ derived' = <<>>
    /\ i' = 0
    /\ tasks' = <<>>
    /\ navigated' = {}
    /\ batches' = <<>>
    /\ delays' = 0
    /\ last_visit' = NoVisit
    /\ UNCHANGED csv_file

\* run(), lines 104-138: the file read, the URLs admitted, the pages made,
\* and the first batch handed to gather; with no URL the loop body never
\* runs and the browser is closed
Run(rows) ==
    /\ pc = "constructed"
    /\ UNCHANGED lvars
    /\ input' = rows
    /\ urls_data' = Admit(Candidates(rows), {}, DomainValues(visited_domains))
    /\ candidates' = LET cands == Candidates(rows)
                     IN  [a \in 1..Len(cands) |->
                             [url |-> cands[a][1], domain |-> get_domain(cands[a][1])]]
    /\ derived' = [m \in 1..Len(urls_data') |->
                      [domain |-> get_domain(urls_data'[m][1]),
                       skip |-> should_skip_url(urls_data'[m][1])]]
    /\ i' = 0
    /\ IF Len(urls_data') = 0
       THEN /\ pc' = "closed"
            /\ UNCHANGED <<tasks, batches>>
       ELSE /\ pc' = "gather"
            /\ tasks' = Batch(urls_data', derived', 0, max_concurrent)
            /\ batches' = Append(batches, Len(tasks'))
    /\ UNCHANGED <<csv_file, visited_domains, max_concurrent, now, runs,
                   start_rows, persisted, navigated, delays, last_visit>>

\* visit_url, lines 67-81: the first step of coroutine j, up to its return
\* or to the await of page.goto
TaskStart(j) ==
    /\ pc = "gather"
    /\ UNCHANGED lvars
    /\ j \in DOMAIN tasks
    /\ tasks[j].pc = "pending"
    /\ \A k \in 1..(j - 1) : tasks[k].pc # "pending"
    /\ LET task == [tasks[j] EXCEPT !.visited_at = strftime(now)]
           step == first_step(task, DomainValues(visited_domains))
       IN  IF step = "skipped"
           THEN /\ Record(task, "skipped")
                /\ tasks' = [tasks EXCEPT ![j] = Returned(task)]
                /\ UNCHANGED navigated
           ELSE IF step = "known"
           THEN /\ tasks' = [tasks EXCEPT ![j] = Returned(task)]
                /\ UNCHANGED <<navigated, visited_domains, csv_file, last_visit>>
           ELSE /\ tasks' = [tasks EXCEPT ![j] = [task EXCEPT !.pc = "goto"]]
                /\ navigated' = navigated \cup {task.url}
                /\ UNCHANGED <<visited_domains, csv_file, last_visit>>
    /\ UNCHANGED <<max_concurrent, pc, input, urls_data, i, now, runs,
                   start_rows, persisted, candidates, derived, batches, delays>>

\* visit_url, lines 81-87 and 98-101: page.goto is over; a response that is
\* ok leads to the scroll script, anything else to the except clause
GotoReturns(j, outcome) ==
    /\ pc = "gather"
    /\ UNCHANGED lvars
    /\ AllStarted
    /\ j \in DOMAIN tasks
    /\ tasks[j].pc = "goto"
    /\ LET task == [tasks[j] EXCEPT !.nav = outcome]
       IN  IF outcome.kind = "response" /\ ResponseOk(outcome.status)
           THEN /\ tasks' = [tasks EXCEPT ![j] = [task EXCEPT !.pc = "evaluate"]]
                /\ UNCHANGED <<visited_domains, csv_file, last_visit>>
           ELSE /\ Record(task, "failed")
                /\ tasks' = [tasks EXCEPT ![j] = Returned(task)]
    /\ UNCHANGED <<max_concurrent, pc, input, urls_data, i, now, runs,
                   start_rows, persisted, candidates, derived, navigated, batches, delays>>

\* visit_url, lines 87-92 and 98-101: page.evaluate is over; it returned, and
\* the settle delay starts, or it raised
EvaluateReturns(j, raised) ==
    /\ pc = "gather"
    /\ UNCHANGED lvars
    /\ AllStarted
    /\ j \in DOMAIN tasks
    /\ tasks[j].pc = "evaluate"
    /\ IF raised
       THEN /\ Record([tasks[j] EXCEPT !.scroll = "raised"], "failed")
            /\ tasks' = [tasks EXCEPT ![j] = Returned(tasks[j])]
       ELSE /\ tasks' = [tasks EXCEPT ![j] =
                            [tasks[j] EXCEPT !.pc = "sleep", !.scroll = "ok"]]
            /\ UNCHANGED <<visited_domains, csv_file, last_visit>>
    /\ UNCHANGED <<max_concurrent, pc, input, urls_data, i, now, runs,
                   start_rows, persisted, candidates, derived, navigated, batches, delays>>

\* visit_url, lines 92-96: the settle delay is over
SleepReturns(j) ==
    /\ pc = "gather"
    /\ UNCHANGED lvars
    /\ AllStarted
    /\ j \in DOMAIN tasks
    /\ tasks[j].pc = "sleep"
    /\ Record(tasks[j], "successful")
    /\ tasks' = [tasks EXCEPT ![j] = Returned(tasks[j])]
    /\ UNCHANGED <<max_concurrent, pc, input, urls_data, i, now, runs,
                   start_rows, persisted, candidates, derived, navigated, batches, delays>>

\* a pacing delay after every batch, the last one too
PacingDueAlways(at, batch_size, total) == TRUE

\* line 140: if i + batch_size < len(urls_data)
PacingDue(at, batch_size, total) == at + batch_size < total

\* lines 133-138 and 145-146: the next turn of the loop over
\* range(0, len(urls_data), batch_size) hands its batch to gather; after
\* the last turn the browser is closed
NextBatch ==
    IF i + max_concurrent < Len(urls_data)
    THEN /\ i' = i + max_concurrent
         /\ tasks' = Batch(urls_data, derived, i', max_concurrent)
         /\ batches' = Append(batches, Len(tasks'))
         /\ pc' = "gather"
    ELSE /\ pc' = "closed"
         /\ UNCHANGED <<i, tasks, batches>>

\* run(), lines 138-146: gather returns; the pacing delay starts when line
\* 140 says so, else the loop goes on
GatherReturns ==
    /\ pc = "gather"
    /\ UNCHANGED lvars
    /\ GatherDone
    /\ IF PacingDue(i, max_concurrent, Len(urls_data))
       THEN /\ pc' = "pacing"
            /\ delays' = delays + 1
            /\ UNCHANGED <<i, tasks, batches>>
       ELSE /\ NextBatch
            /\ UNCHANGED delays
    /\ last_visit' = NoVisit
    /\ UNCHANGED <<csv_file, visited_domains, max_concurrent, input, urls_data,
                   now, runs, start_rows, persisted, candidates, derived, navigated>>

\* run(), line 143: the pacing delay is over, the loop goes on
PacingReturns ==
    /\ pc = "pacing"
    /\ UNCHANGED lvars
    /\ NextBatch
    /\ UNCHANGED <<csv_file, visited_domains, max_concurrent, input, urls_data,
                   now, runs, start_rows, persisted, candidates, derived, navigated, delays, last_visit>>

Next ==
    \/ \E width \in 1..MaxConcurrent : Construct(width)
    \/ \E rows \in Inputs : Run(rows)
    \/ \E j \in 1..MaxConcurrent : TaskStart(j)
    \/ \E j \in 1..MaxConcurrent, outcome \in NavOutcomes : GotoReturns(j, outcome)
    \/ \E j \in 1..MaxConcurrent, raised \in BOOLEAN : EvaluateReturns(j, raised)
    \/ \E j \in 1..MaxConcurrent : SleepReturns(j)
    \/ GatherReturns
    \/ PacingReturns

Spec == Init /\ [][Next]_vars

\* the scan's reconciliations alone: the Visitor is not started
InitLedger == VisitorInit /\ LedgerInit

SpecLedger == InitLedger /\ [][LedgerNext]_vars

(***************************************************************************)
(* The scan: is_promotional_link, extract_links_from_email and scan_inbox  *)
(* of src/tracker_scanner.py.                                              *)
(***************************************************************************)
promo_indicators ==
    <<"offer", "deal", "discount", "save", "sale", "promo",
      "buy", "shop", "order", "purchase", "subscribe",
      "campaign", "special", "limited", "exclusive", "marketing",
      "newsletter", "unsubscribe", "click", "track", "analytics",
      "product", "store", "marketplace", "cart", "checkout",
      "catalog", "collection", "brand", "partner">>

window_size == 100

\* any(indicator in s for indicator in promo_indicators)
HasIndicator(s) ==
    \E k \in 1..Len(promo_indicators) : Contains(promo_indicators[k], s)

\* lines 94-113; url_index is 0-based, -1 when the URL is not found
is_promotional_link(url, email_content) ==
    LET url_lower == Lower(url)
        content_lower == Lower(email_content)
        url_index == Find(content_lower, url_lower, 1) - 1
        start == IF url_index - window_size > 0 THEN url_index - window_size ELSE 0
        end == IF url_index + window_size < Len(content_lower)
               THEN url_index + window_size ELSE Len(content_lower)
        surrounding_content == SubSeq(content_lower, start + 1, end)
    IN  \/ HasIndicator(url_lower)
        \/ url_index # -1 /\ HasIndicator(surrounding_content)

\* the characters that end a match of [^\s<>"']+ (of the white space, the
\* blank only)
UrlStops == " <>\"'"

\* the position after the run of [^\s<>"'] that starts at start
UrlEnd(s, start) ==
    LET hits == {k \in start..Len(s) : CharIn(Char(s, k), UrlStops)}
    IN  IF hits = {} THEN Len(s) + 1 ELSE CHOOSE k \in hits : \A m \in hits : k <= m

\* the length of the match of https?:// at position k, 0 if there is none
UrlPrefix(s, k) ==
    IF MatchAt(s, "http://", k) THEN 7
    ELSE IF MatchAt(s, "https://", k) THEN 8
    ELSE 0

\* line 164: re.findall(r'https?://[^\s<>"\']+', s), from position pos on
RECURSIVE FindUrls(_, _)
FindUrls(s, pos) ==
    LET starts == {k \in pos..Len(s) :
                      /\ UrlPrefix(s, k) > 0
                      /\ UrlEnd(s, k + UrlPrefix(s, k)) > k + UrlPrefix(s, k)}
    IN  IF starts = {} THEN <<>>
        ELSE LET k == CHOOSE a \in starts : \A b \in starts : a <= b
                 stop == UrlEnd(s, k + UrlPrefix(s, k))
             IN  <<SubSeq(s, k, stop - 1)>> \o FindUrls(s, stop)

\* a message: its Date header as parsedate_to_datetime reads it (None when
\* the header is missing, which makes it raise), its From header, and its
\* parts as walk() gives them, each with its decoded payload ("" for None)
Message(date, from, parts) == [date |-> date, from |-> from, parts |-> parts]
Part(content_type, content) == [content_type |-> content_type, content |-> content]

\* lines 154-167: the URLs of the text parts, in order, each with the
\* content it was found in, that is_promotional_link takes
RECURSIVE PromotionalUrls(_)
PromotionalUrls(parts) ==
    IF Len(parts) = 0 THEN <<>>
    ELSE LET part == parts[1]
             urls == IF part.content_type \in {"text/plain", "text/html"}
                        /\ part.content # ""
                     THEN FindUrls(part.content, 1)
                     ELSE <<>>
         IN  SelectSeq(urls, LAMBDA url : is_promotional_link(url, part.content))
             \o PromotionalUrls(Tail(parts))

\* the URLs before the first one that makes urlparse raise at line 168: the
\* exception leaves both loops for the handler of line 183
RECURSIVE UntilRaise(_)
UntilRaise(urls) ==
    IF Len(urls) = 0 \/ urlparse_raises(urls[1]) THEN <<>>
    ELSE <<urls[1]>> \o UntilRaise(Tail(urls))

\* extract_links_from_email: the calls of update_domain_tracking it makes,
\* in order; none when parsedate_to_datetime raises at line 151
extract_links_from_email(email_message) ==
    IF email_message.date.none THEN <<>>
    ELSE LET urls == UntilRaise(PromotionalUrls(email_message.parts))
         IN  [k \in 1..Len(urls) |->
                 Observation(urls[k], email_message.date, email_message.from)]

\* the Ledger, the order of its keys and the histories after the calls
RECURSIVE ReconcileAll(_, _, _)
ReconcileAll(ledger, calls, local) ==
    IF Len(calls) = 0 THEN ledger
    ELSE ReconcileAll(
             [tracking |-> Reconciled(ledger.tracking, calls[1], local),
              order |-> KeyOrder(ledger.order, calls[1].domain),
              first |-> FirstSender(ledger.first, ledger.seen, calls[1], local),
              seen |-> ledger.seen \cup {calls[1]}],
             Tail(calls), local)

(***************************************************************************)
(* The mailboxes scanned.                                                  *)
(***************************************************************************)
\* a multipart message whose first URL has a host with an unclosed bracket,
\* followed by promotional URLs in the same part and in a later part
MessageSale ==
    Message(Aware(3, 0), "deals@shop.example.com",
            <<Part("multipart/alternative", ""),
              Part("text/plain",
                   "Sale http://[sale.example.com/deal now, http://a.com/offer?cid=9 too"),
              Part("text/html", "<a href=http://b.com/discount?ref=x>more</a>")>>)

\* two URLs of one domain, one with ;parameters and one with an HTML
\* entity in its query, and a URL that is promotional by its surroundings
MessageNews ==
    Message(Naive(2), "news@b.com",
            <<Part("text/plain",
                   "New deals: http://a.com/shop;v=2?utm_source=mail http://a.com/buy?x=1&amp;cid=4 see http://c.org/about")>>)

\* a message without a Date header
MessageNoDate ==
    Message(None, "promo@d.com", <<Part("text/plain", "offer http://d.com/sale")>>)

\* an older message, with an attachment, a URL with a repeated parameter
\* and a blank one, and a URL that is promotional by its surroundings
MessageOld ==
    Message(Aware(1, 0), "promo@b.com",
            <<Part("image/png", "http://b.com/sale.png"),
              Part("text/html",
                   "<p>http://b.com/cart?gclid=5&gclid=6&utm_term= </p><p> http://e.org/about?hsCtaTracking=ab&page=2 </p>")>>)

Mailboxes ==
    {<<MessageSale, MessageNoDate, MessageNews, MessageOld>>,
     <<MessageOld, MessageNews, MessageSale>>}

\* what self.mail.fetch does: it returns the message or it raises
FetchOutcomes == {"ok", "raises"}

(***************************************************************************)
(* scan_inbox.                                                             *)
(***************************************************************************)
\* lines 188-199: the search; with no message the loop is not entered
Search(box) ==
    /\ scan_pc = "idle"
    /\ mailbox' = box
    /\ index' = 0
    /\ scan_pc' = IF Len(box) = 0 THEN "scanned" ELSE "scanning"
    /\ UNCHANGED <<domain_tracking, local_tz, observations, reconciled, key_order,
                   first_sender, fetched, processed, exported, vvars>>

\* the handler of lines 212-214 goes on with the next message
after_failure_abort(at, total) == [index |-> at, scan_pc |-> "aborted"]

\* lines 212-214: continue
after_failure(at, total) ==
    [index |-> at, scan_pc |-> IF at = total THEN "scanned" ELSE "scanning"]

\* lines 201-214: one turn of the loop, for the message at index + 1
ScanMessage(fetch) ==
    /\ scan_pc = "scanning"
    /\ fetched' = fetched \cup {index + 1}
    /\ IF fetch = "raises"
       THEN /\ index' = after_failure(index + 1, Len(mailbox)).index
            /\ scan_pc' = after_failure(index + 1, Len(mailbox)).scan_pc
            /\ UNCHANGED <<domain_tracking, reconciled, key_order, first_sender,
                           processed>>
       ELSE LET calls == extract_links_from_email(mailbox[index + 1])
                ledger == ReconcileAll(
                              [tracking |-> domain_tracking, order |-> key_order,
                               first |-> first_sender, seen |-> reconciled],
                              calls, local_tz)
            IN  /\ domain_tracking' = ledger.tracking
                /\ key_order' = ledger.order
                /\ first_sender' = ledger.first
                /\ reconciled' = ledger.seen
                /\ processed' = processed \cup {index + 1}
                /\ index' = index + 1
                /\ scan_pc' = IF index + 1 = Len(mailbox) THEN "scanned"
                              ELSE "scanning"
    /\ UNCHANGED <<mailbox, local_tz, observations, exported, vvars>>

(***************************************************************************)
(* save_to_csv.  The rows written are kept as records of the six columns.  *)
(***************************************************************************)
\* datetime.isoformat() of an aware timestamp; the timestamps of the model
\* are whole hours of one day with offsets of whole hours east
isoformat(ts) ==
    "2024-05-01T0" \o Char(DigitChars, ts.wall + 1) \o ":00:00+0"
    \o Char(DigitChars, ts.offset + 1) \o ":00"

\* the orders in which a set can be iterated
Orders(S) ==
    {order \in [1..Cardinality(S) -> S] :
        \A a, b \in 1..Cardinality(S) : a # b => order[a] # order[b]}

\* where the item at position k of order goes when sorted(..., reverse=True)
\* sorts by the instant of latest_timestamp: the sort is stable
SortedPosition(tracking, order, k) ==
    Cardinality({m \in 1..Len(order) :
        \/ Instant(tracking[order[m]].latest_timestamp)
               > Instant(tracking[order[k]].latest_timestamp)
        \/ /\ Instant(tracking[order[m]].latest_timestamp)
                  = Instant(tracking[order[k]].latest_timestamp)
           /\ m <= k})

\* sorted_domains with the sort ascending
sorted_domains_ascending(tracking, order) ==
    [p \in 1..Len(order) |->
        order[CHOOSE k \in 1..Len(order) :
                  SortedPosition(tracking, order, k) = Len(order) + 1 - p]]

\* lines 233-237: every stored latest_timestamp is aware, none is None
sorted_domains(tracking, order) ==
    [p \in 1..Len(order) |->
        order[CHOOSE k \in 1..Len(order) : SortedPosition(tracking, order, k) = p]]

\* lines 241-248: the rows that can be written for one domain
ExportRows(domain, data) ==
    {[Domain |-> domain,
      Latest_Timestamp |-> isoformat(data.latest_timestamp),
      Latest_Sender |-> data.latest_source_email,
      Latest_URLs |-> Join("; ", urls),
      Latest_Tracking_Parameters |->
          Join("; ", [k \in 1..Len(params) |-> params[k][1] \o "=" \o params[k][2]]),
      Latest_Click_IDs |-> Join("; ", click_ids)] :
        urls \in Orders(data.latest_urls),
        params \in Orders(data.latest_tracking_params),
        click_ids \in Orders(data.latest_click_ids)}

\* lines 239-249: the files that can be written, as sequences of rows
save_to_csv(tracking, order) ==
    LET sorted == sorted_domains(tracking, order)
        kept == SelectSeq(sorted, LAMBDA d : ~tracking[d].latest_timestamp.none)
    IN  {rows \in [1..Len(kept) ->
                      UNION {ExportRows(d, tracking[d]) : d \in DOMAIN tracking}] :
            \A k \in 1..Len(kept) : rows[k] \in ExportRows(kept[k], tracking[kept[k]])}

\* main, lines 266-267: the export follows the scan
SaveToCsv ==
    /\ scan_pc = "scanned"
    /\ exported' \in save_to_csv(domain_tracking, key_order)
    /\ scan_pc' = "saved"
    /\ UNCHANGED <<domain_tracking, local_tz, observations, reconciled, key_order,
                   first_sender, mailbox, index, fetched, processed, vvars>>

ScanInit ==
    /\ VisitorInit
    /\ domain_tracking = <<>>
    /\ local_tz \in LocalOffsets
    /\ observations = {}
    /\ reconciled = {}
    /\ key_order = <<>>
    /\ first_sender = <<>>
    /\ ScanIdle

ScanNext ==
    \/ \E box \in Mailboxes : Search(box)
    \/ \E fetch \in FetchOutcomes : ScanMessage(fetch)
    \/ SaveToCsv

SpecScan == ScanInit /\ [][ScanNext]_vars

(***************************************************************************)
(* What the properties of the Ledger read.                                 *)
(***************************************************************************)
ObservedFor(domain) == {o \in reconciled : o.domain = domain}

InstantOf(o) == Instant(attach_local(o.timestamp, local_tz))

\* the observations of the domain with the greatest timestamp
Freshest(domain) ==
    {o \in ObservedFor(domain) :
        \A other \in ObservedFor(domain) : InstantOf(other) <= InstantOf(o)}

(***************************************************************************)
(* C1. The record of every domain with observations holds the greatest     *)
(* timestamp among them (as aware datetimes compare: the same instant),    *)
(* and its URLs, tracking parameters and click ids are the unions over     *)
(* exactly the observations with that timestamp.                           *)
(***************************************************************************)
C1_FreshestObservations ==
    /\ DOMAIN domain_tracking = {o.domain : o \in reconciled}
    /\ \A d \in DOMAIN domain_tracking :
           LET record == domain_tracking[d]
           IN  /\ ~record.latest_timestamp.none
               /\ record.latest_timestamp.aware
               /\ \A o \in Freshest(d) :
                      Instant(record.latest_timestamp) = InstantOf(o)
               /\ record.latest_urls = {o.url : o \in Freshest(d)}
               /\ record.latest_tracking_params =
                      UNION {o.tracking_params : o \in Freshest(d)}
               /\ record.latest_click_ids = UNION {o.click_ids : o \in Freshest(d)}

\* a domain with two observations of the greatest timestamp, of different
\* URLs, and an older one that carries tracking parameters
C1_Witness ==
    \E d \in DOMAIN domain_tracking :
        /\ Cardinality({o.url : o \in Freshest(d)}) = 2
        /\ Cardinality(domain_tracking[d].latest_urls) = 2
        /\ \E o \in ObservedFor(d) :
               /\ o \notin Freshest(d)
               /\ o.tracking_params # {}
               /\ \A f \in Freshest(d) : o.url # f.url

(***************************************************************************)
(* C2. Reconciliation is idempotent: in every reachable Ledger, for every  *)
(* observation, update_domain_tracking applied twice gives the Ledger it   *)
(* gives applied once.                                                     *)
(***************************************************************************)
C2_Idempotent ==
    \A o \in observations :
        LET once == Reconciled(domain_tracking, o, local_tz)
        IN  Reconciled(once, o, local_tz) = once

\* the Ledger after an observation was merged into a record of the same
\* timestamp: reconciling it again changes nothing
C2_Witness ==
    \E o \in reconciled :
        /\ Cardinality(domain_tracking[o.domain].latest_urls) = 2
        /\ o \in Freshest(o.domain)
        /\ o.tracking_params # {}
        /\ Reconciled(domain_tracking, o, local_tz) = domain_tracking

(***************************************************************************)
(* What the properties of the Visitor read.                                *)
(***************************************************************************)
Loaded == pc \in {"gather", "pacing", "closed"}

UrlAt(m) == urls_data[m][1]
DomainAt(m) == derived[m].domain
Rejected(m) == derived[m].skip
Submitted == {UrlAt(m) : m \in 1..Len(urls_data)}

\* the rows appended since the constructor loaded the store
RunRows == SubSeq(visited_domains, Len(start_rows) + 1, Len(visited_domains))
RunRowsOf(domain) == {k \in 1..Len(RunRows) : RunRows[k].domain = domain}

\* item m of urls_data has been handed to gather and has taken its first step
Processed(m) ==
    /\ Loaded
    /\ m \in 1..Len(urls_data)
    /\ \/ m <= i
       \/ (m - i) \in DOMAIN tasks /\ tasks[m - i].pc # "pending"

\* the coroutine of item m has returned
Finished(m) ==
    /\ Processed(m)
    /\ m > i => tasks[m - i].pc = "done"

\* the 0-based number of the batch of item m
BatchOf(m) == (m - 1) \div max_concurrent

\* the path of the URL ends, letter case aside, with a static-asset extension
HasAssetExtension(url) ==
    \E e \in {".png", ".jpg", ".gif", ".ico", ".svg", ".css", ".js"} :
        EndsWith(Lower(urlparse(url).path), e)

IsPrefix(s, t) == Len(s) <= Len(t) /\ SubSeq(t, 1, Len(s)) = s

(***************************************************************************)
(* C3. Domain-level dedup within one run: the submitted URLs have pairwise *)
(* different domains, every URL of the input with an http prefix has its   *)
(* domain represented by at most one submitted URL, and only submitted     *)
(* URLs are handed to a session slot or navigated to.                      *)
(***************************************************************************)
C3_DomainDedup ==
    Loaded =>
        /\ \A m, n \in 1..Len(urls_data) : DomainAt(m) = DomainAt(n) => m = n
        /\ \A j \in DOMAIN tasks : tasks[j].url = UrlAt(i + j)
        /\ navigated \subseteq Submitted
        /\ \A a, b \in 1..Len(candidates) :
               /\ candidates[a].domain = candidates[b].domain
               /\ candidates[a].url # candidates[b].url
               => ~(candidates[a].url \in Submitted /\ candidates[b].url \in Submitted)

\* a run over an input with two URLs of one domain has ended, one of them
\* navigated to
C3_Witness ==
    /\ pc = "closed"
    /\ navigated # {}
    /\ \E a, b \in 1..Len(candidates) :
           /\ candidates[a].url # candidates[b].url
           /\ candidates[a].domain = candidates[b].domain
           /\ candidates[a].url \in navigated

(***************************************************************************)
(* C4. Barrier batching: a finished run over N submitted URLs with width W *)
(* has issued ceil(N/W) batches, each of size W but a last one of size     *)
(* N mod W when that is not 0; and whenever an item of a batch has started,*)
(* every item of the batches before it has a row recorded in this run.     *)
(***************************************************************************)
C4_BarrierBatching ==
    LET W == max_concurrent
        N == Len(urls_data)
    IN  /\ Loaded =>
            /\ \A k \in 1..Len(batches) :
                   batches[k] = IF k * W <= N THEN W ELSE N % W
            /\ pc # "closed" => Len(batches) = (i \div W) + 1
            /\ \A m, n \in 1..N :
                   Processed(n) /\ BatchOf(m) < BatchOf(n) => RunRowsOf(DomainAt(m)) # {}
        /\ pc = "closed" => Len(batches) = (N + W - 1) \div W

\* W = 2 and N = 5: the run has ended after batches of sizes 2, 2, 1
C4_Witness ==
    /\ pc = "closed"
    /\ max_concurrent = 2
    /\ Len(urls_data) = 5
    /\ batches = <<2, 2, 1>>

(***************************************************************************)
(* C5. Cross-run dedup: no URL of a domain that had a row, of any status,  *)
(* in the file when the store was loaded is submitted, placed in a batch,  *)
(* handed to a session or navigated to, and no row is appended for it in   *)
(* the run.                                                                *)
(***************************************************************************)
C5_CrossRunDedup ==
    Loaded =>
        \A d \in DomainValues(persisted) :
            /\ \A m \in 1..Len(urls_data) : DomainAt(m) # d
            /\ \A a \in 1..Len(candidates) :
                   candidates[a].domain = d =>
                       /\ candidates[a].url \notin Submitted
                       /\ candidates[a].url \notin navigated
                       /\ \A j \in DOMAIN tasks : tasks[j].url # candidates[a].url
            /\ RunRowsOf(d) = {}

(***************************************************************************)
(* C6. should_skip_url rejects every URL it is given whose path ends,      *)
(* letter case aside, with a static-asset extension, whatever follows the  *)
(* path: no such URL is navigated to.                                      *)
(***************************************************************************)
C6_AssetExtensionRejected ==
    \A m \in 1..Len(urls_data) :
        Processed(m) /\ HasAssetExtension(UrlAt(m)) =>
            /\ should_skip_url(UrlAt(m))
            /\ UrlAt(m) \notin navigated

(***************************************************************************)
(* C7. A submitted URL the Admission Filter rejects is never navigated     *)
(* to: the first step of its visit_url returns, with exactly one row for   *)
(* its domain appended in the run, of status skipped; and no URL of a      *)
(* domain with a skipped row is submitted, dispatched or navigated to in a *)
(* later run.                                                              *)
(***************************************************************************)
C7_RejectedRecordedSkipped ==
    /\ \A m \in 1..Len(urls_data) :
           Processed(m) /\ Rejected(m) =>
               /\ Finished(m)
               /\ UrlAt(m) \notin navigated
               /\ Cardinality(RunRowsOf(DomainAt(m))) = 1
               /\ \A k \in RunRowsOf(DomainAt(m)) : RunRows[k].status = "skipped"
    /\ Loaded =>
           \A k \in 1..Len(persisted) :
               persisted[k].status = "skipped" =>
                   \A a \in 1..Len(candidates) :
                       candidates[a].domain = persisted[k].domain =>
                           /\ candidates[a].url \notin Submitted
                           /\ candidates[a].url \notin navigated
                           /\ \A j \in DOMAIN tasks : tasks[j].url # candidates[a].url

(***************************************************************************)
(* C8, as the specification states it: once a navigation of the run has    *)
(* started, every submitted URL the filter rejects has its skipped row.    *)
(***************************************************************************)
C8_SkippedBeforeVisiting ==
    navigated # {} =>
        \A m \in 1..Len(urls_data) :
            Rejected(m) =>
                \E k \in RunRowsOf(DomainAt(m)) : RunRows[k].status = "skipped"

(***************************************************************************)
(* C8, amended. The skipped row of a submitted URL the filter rejects is   *)
(* appended by the first step of its own visit_url, in its own batch: it   *)
(* is there exactly when that step has been taken, so before any           *)
(* navigation of a later batch starts; and skipped rows are appended for   *)
(* submitted URLs only.                                                    *)
(***************************************************************************)
C8_SkippedInOwnBatch ==
    Loaded =>
        /\ \A m \in 1..Len(urls_data) :
               Rejected(m) =>
                   /\ Processed(m) <=>
                          \E k \in RunRowsOf(DomainAt(m)) : RunRows[k].status = "skipped"
                   /\ \A n \in 1..Len(urls_data) :
                          UrlAt(n) \in navigated /\ BatchOf(m) < BatchOf(n) =>
                              RunRowsOf(DomainAt(m)) # {}
        /\ \A k \in 1..Len(RunRows) :
               RunRows[k].status = "skipped" =>
                   \E m \in 1..Len(urls_data) :
                       DomainAt(m) = RunRows[k].domain /\ Rejected(m)

\* a navigation of the run had started before the skipped row of a rejected
\* URL of the same run was appended: the navigated URL comes first in
\* urls_data and the rejected one has just taken its first step
C8_Witness ==
    /\ pc = "gather"
    /\ \E m, n \in 1..Len(urls_data) :
           /\ n < m
           /\ UrlAt(n) \in navigated
           /\ Rejected(m)
           /\ Processed(m)
           /\ m > i
           /\ \E k \in RunRowsOf(DomainAt(m)) : RunRows[k].status = "skipped"

(***************************************************************************)
(* C9, as the specification states it: the visit that has just returned    *)
(* with a row successful or failed is successful exactly when the          *)
(* navigation returned a response with a 2xx or a 3xx status.              *)
(***************************************************************************)
C9_SuccessfulOn2xxOr3xx ==
    last_visit.status \in {"successful", "failed"} =>
        (last_visit.status = "successful" <=>
            /\ last_visit.nav.kind = "response"
            /\ last_visit.nav.status >= 200
            /\ last_visit.nav.status <= 399)

(***************************************************************************)
(* C9, amended. An admitted URL gets status successful when the navigation *)
(* returns a response with a 2xx status and the scroll script then returns,*)
(* and status failed when the navigation times out, raises, returns no     *)
(* response or a response with another status (3xx included), or the       *)
(* scroll script raises; a returned visit of an admitted URL has exactly   *)
(* one row, of one of the two statuses.                                    *)
(***************************************************************************)
C9_OutcomeClassification ==
    /\ last_visit.status \in {"successful", "failed"} =>
           (last_visit.status = "successful" <=>
               /\ last_visit.nav.kind = "response"
               /\ last_visit.nav.status >= 200
               /\ last_visit.nav.status <= 299
               /\ last_visit.scroll = "ok")
    /\ last_visit.status = "skipped" => last_visit.nav = NoNav
    /\ \A m \in 1..Len(urls_data) :
           Finished(m) /\ ~Rejected(m) =>
               /\ Cardinality(RunRowsOf(DomainAt(m))) = 1
               /\ \A k \in RunRowsOf(DomainAt(m)) :
                      RunRows[k].status \in {"successful", "failed"}

\* a navigation that returned a 304 response has been recorded failed
C9_Witness ==
    /\ last_visit.status = "failed"
    /\ last_visit.nav = [kind |-> "response", status |-> 304]
    /\ visited_domains[Len(visited_domains)].status = "failed"

(***************************************************************************)
(* C10. The persisted store is an append-only log: every step of a run,    *)
(* and every start of a later run, leaves the lines the file held in       *)
(* place and at most adds lines after them.                                *)
(***************************************************************************)
C10_AppendOnly == [][IsPrefix(csv_file, csv_file')]_vars

(***************************************************************************)
(* What the properties of the scan read.                                   *)
(***************************************************************************)
\* the calls of update_domain_tracking the message at position m makes
CallsOf(m) == extract_links_from_email(mailbox[m])

CallSet(calls) == {calls[k] : k \in 1..Len(calls)}

(***************************************************************************)
(* C11. No message failure aborts the scan: the loop takes the messages of *)
(* the search result in order, whatever raised for the ones before, and    *)
(* the scan ends only after the last one, every message fetched.           *)
(***************************************************************************)
C11_ScanContinues ==
    /\ fetched = 1..index
    /\ scan_pc = "scanning" => index < Len(mailbox)
    /\ scan_pc \notin {"idle", "scanning"} =>
           /\ scan_pc \in {"scanned", "saved"}
           /\ fetched = 1..Len(mailbox)

\* the scan has ended after a fetch that raised and, before it, a message
\* without a Date header; a later message has been reconciled
C11_Witness ==
    /\ scan_pc = "scanned"
    /\ \E k \in fetched \ processed, n \in processed, m \in processed :
           /\ mailbox[n].date.none
           /\ m > k /\ m > n
           /\ CallsOf(m) # <<>>
           /\ CallSet(CallsOf(m)) \subseteq reconciled

\* the domains that have had an observation reconciled
ReconciledDomains ==
    {d \in DOMAIN domain_tracking : ~domain_tracking[d].latest_timestamp.none}

\* the instant of the latest timestamp of the domain of the row at k
RowInstant(k) == Instant(domain_tracking[exported[k].Domain].latest_timestamp)

(***************************************************************************)
(* C12. The export has exactly one row for each domain with a latest       *)
(* timestamp, no other row, and the rows are in non-increasing order of    *)
(* the latest timestamp of their domains.                                  *)
(***************************************************************************)
C12_ExportRowsSorted ==
    scan_pc = "saved" =>
        /\ \A k \in 1..Len(exported) : exported[k].Domain \in ReconciledDomains
        /\ \A d \in ReconciledDomains :
               Cardinality({k \in 1..Len(exported) : exported[k].Domain = d}) = 1
        /\ \A k \in 1..Len(exported) :
               exported[k].Latest_Timestamp
                   = isoformat(domain_tracking[exported[k].Domain].latest_timestamp)
        /\ \A k, m \in 1..Len(exported) : k < m => RowInstant(k) >= RowInstant(m)

\* an export of four domains that the sort has reordered, two of them at
\* the same instant and two at different ones
C12_Witness ==
    /\ scan_pc = "saved"
    /\ Len(exported) = 4
    /\ [k \in 1..4 |-> exported[k].Domain] # key_order
    /\ RowInstant(1) = RowInstant(2)
    /\ RowInstant(2) > RowInstant(3)

\* the URLs the loader of the Visitor reads from the Latest URLs field of a
\* row of the export
LoaderUrls(row) ==
    LET read == Candidates(<<Row(row.Latest_URLs, row.Latest_Timestamp)>>)
    IN  {read[k][1] : k \in 1..Len(read)}

(***************************************************************************)
(* C13. Export round trip: the Latest URLs field of every exported row,    *)
(* split on "; ", is the set latest_urls of its record, and the URLs the   *)
(* loader of the Visitor reads from the field are that set too.            *)
(***************************************************************************)
C13_ExportRoundTrip ==
    scan_pc = "saved" =>
        \A k \in 1..Len(exported) :
            /\ CallSet(SplitStr(exported[k].Latest_URLs, "; "))
                   = domain_tracking[exported[k].Domain].latest_urls
            /\ LoaderUrls(exported[k])
                   = domain_tracking[exported[k].Domain].latest_urls

(***************************************************************************)
(* The Visitor under the fairness its scheduling gives: the event loop     *)
(* runs every coroutine that is ready, timers fire, and page.goto is over  *)
(* after its timeout of 15000 ms at the latest.  page.evaluate, line 87,   *)
(* is awaited without a timeout: nothing makes it return.                  *)
(***************************************************************************)
Fairness ==
    /\ WF_vars(\E j \in 1..MaxConcurrent : TaskStart(j))
    /\ WF_vars(\E j \in 1..MaxConcurrent, outcome \in NavOutcomes : GotoReturns(j, outcome))
    /\ WF_vars(\E j \in 1..MaxConcurrent : SleepReturns(j))
    /\ WF_vars(GatherReturns)
    /\ WF_vars(PacingReturns)

SpecFair == Spec /\ Fairness

\* every submitted URL has exactly one row of this run in the store
EveryOutcomeRecorded ==
    \A m \in 1..Len(urls_data) : Cardinality(RunRowsOf(DomainAt(m))) = 1

(***************************************************************************)
(* C14. Every run terminates: once the URLs are submitted, the run comes   *)
(* to its end, with exactly one outcome recorded for every submitted URL.  *)
(***************************************************************************)
C14_RunTerminates ==
    (pc \in {"gather", "pacing"}) ~> (pc = "closed" /\ EveryOutcomeRecorded)

\* the rows of this run as the lines written for them read
RunRowsText == [k \in 1..Len(RunRows) |-> TextRow(RowLine(RunRows[k]))]

\* the items handed to gather so far
Dispatched == i + Len(tasks)

(***************************************************************************)
(* C15. No outcome row is lost or overwritten: when a batch completes, the *)
(* store in memory and the persisted file both hold the rows present       *)
(* before plus exactly one new row for each item visited so far.           *)
(***************************************************************************)
C15_NoRowLost ==
    pc = "gather" /\ GatherDone =>
        /\ IsPrefix(start_rows, visited_domains)
        /\ Len(RunRows) = Dispatched
        /\ \A m \in 1..Dispatched : Cardinality(RunRowsOf(DomainAt(m))) = 1
        /\ TextRows(csv_file) = persisted \o RunRowsText

\* the visits that hold their page: awaiting page.goto, page.evaluate or
\* the settle delay
InFlight == {j \in DOMAIN tasks : tasks[j].pc \in {"goto", "evaluate", "sleep"}}

(***************************************************************************)
(* C16. Session exclusivity: no two visits in flight use the same page,    *)
(* every page used is one of the W pages of the pool, and never more than  *)
(* W visits are in flight.                                                 *)
(***************************************************************************)
C16_SessionExclusive ==
    /\ \A a, b \in InFlight : a # b => tasks[a].page # tasks[b].page
    /\ \A a \in InFlight : tasks[a].page \in 0..(max_concurrent - 1)
    /\ Cardinality(InFlight) <= max_concurrent

\* two visits in flight at once, one at its navigation and one past it
C16_Witness ==
    /\ max_concurrent = 2
    /\ InFlight = {1, 2}
    /\ tasks[1].pc = "goto"
    /\ tasks[2].pc \in {"evaluate", "sleep"}
    /\ tasks[1].page = 0 /\ tasks[2].page = 1

(***************************************************************************)
(* C17. Sender on ties: the sender of every record is the sender of the    *)
(* observation that arrived first among those of its latest timestamp;     *)
(* reconciling an observation of an equal timestamp leaves the sender as   *)
(* it is, and reconciling an older one leaves the whole Ledger as it is.   *)
(***************************************************************************)
C17_SenderOnTies ==
    /\ \A d \in DOMAIN domain_tracking :
           domain_tracking[d].latest_source_email = first_sender[d]
    /\ \A o \in observations :
           o.domain \in DOMAIN domain_tracking =>
               LET latest == Instant(domain_tracking[o.domain].latest_timestamp)
                   after == Reconciled(domain_tracking, o, local_tz)
               IN  /\ InstantOf(o) = latest =>
                          after[o.domain].latest_source_email
                              = domain_tracking[o.domain].latest_source_email
                   /\ InstantOf(o) < latest => after = domain_tracking

\* two observations of the latest timestamp of a domain, from different
\* senders, and an older one from the other sender reconciled too: the
\* record has the sender of the first of the two
C17_Witness ==
    \E d \in DOMAIN domain_tracking :
        /\ \E a, b \in Freshest(d) :
               /\ a.sender # b.sender
               /\ a.sender = first_sender[d]
               /\ domain_tracking[d].latest_source_email = a.sender
        /\ \E o \in ObservedFor(d) : o \notin Freshest(d)

\* the promotional URLs of the message at position m that urlparse accepts
WellFormedUrls(m) ==
    SelectSeq(PromotionalUrls(mailbox[m].parts), LAMBDA url : ~urlparse_raises(url))

(***************************************************************************)
(* C18. A URL whose parsing raises is skipped alone: every promotional URL *)
(* that urlparse accepts, of every processed message with a Date header,   *)
(* has been reconciled, whatever URL came before it in the message.        *)
(***************************************************************************)
C18_UrlFailureLocal ==
    \A m \in processed :
        ~mailbox[m].date.none =>
            \A k \in 1..Len(WellFormedUrls(m)) :
                Observation(WellFormedUrls(m)[k], mailbox[m].date, mailbox[m].from)
                    \in reconciled

(***************************************************************************)
(* C19. Pacing between batches: a pacing delay is taken after a batch only *)
(* when another batch follows, and each batch but the first starts after   *)
(* one: a run of B batches has taken B - 1 delays when it ends, and a run  *)
(* with no URLs none.                                                      *)
(***************************************************************************)
C19_PacingBetweenBatches ==
    /\ pc = "pacing" =>
           /\ i + max_concurrent < Len(urls_data)
           /\ delays = Len(batches)
    /\ pc = "gather" => delays = Len(batches) - 1
    /\ pc = "closed" =>
           delays = IF Len(batches) = 0 THEN 0 ELSE Len(batches) - 1

\* a run of three batches has ended after two pacing delays
C19_Witness ==
    /\ pc = "closed"
    /\ Len(batches) = 3
    /\ delays = 2

\* the URLs found in the text parts of the messages processed so far
RECURSIVE PartUrls(_)
PartUrls(parts) ==
    IF Len(parts) = 0 THEN {}
    ELSE (IF parts[1].content_type \in {"text/plain", "text/html"}
          THEN CallSet(FindUrls(parts[1].content, 1))
          ELSE {})
         \cup PartUrls(Tail(parts))

ScannedUrls == UNION {PartUrls(mailbox[m].parts) : m \in processed}

\* the name of a name=value field of a query string
FieldName(field) ==
    IF Find(field, "=", 1) = 0 THEN field ELSE UpTo(field, Find(field, "=", 1) - 1)

FieldValue(field) ==
    IF Find(field, "=", 1) = 0 THEN "" ELSE From(field, Find(field, "=", 1))

\* the fields of the query string of the URL, in order
QueryFields(url) ==
    IF urlparse(url).query = "" THEN <<>> ELSE Split(urlparse(url).query, "&")

\* the name contains a fragment of the table, letter case aside
ContainsFragment(name) ==
    \E k \in 1..Len(tracking_patterns) :
        Contains(Lower(tracking_patterns[k]), Lower(name))

(***************************************************************************)
(* C20. For every URL, a parameter of the query string is in the result of *)
(* extract_tracking_params exactly when its name contains a fragment of    *)
(* the table, letter case aside, and its value there is the first value    *)
(* the query string gives it.                                              *)
(***************************************************************************)
C20_ClassifierCaseInsensitive ==
    \A url \in ScannedUrls :
        ~urlparse_raises(url) =>
            LET fields == QueryFields(url)
                result == extract_tracking_params(url)
            IN  \A k \in 1..Len(fields) :
                    LET name == FieldName(fields[k])
                        first == CHOOSE n \in 1..k :
                                     /\ FieldName(fields[n]) = name
                                     /\ \A m \in 1..(n - 1) : FieldName(fields[m]) # name
                    IN  /\ ContainsFragment(name) <=> \E pair \in result : pair[1] = name
                        /\ \A pair \in result :
                               pair[1] = name => pair[2] = FieldValue(fields[first])
=============================================================================
